---------------------------- MODULE Spec2Model ----------------------------
(***************************************************************************)
(* Weighted, hash-based request routing (hash_distributer).                *)
(*                                                                         *)
(* RouteRequest hashes a request identifier with a Hasher, reduces the     *)
(* hash to a percentage 0..99 and walks the cumulative distribution to     *)
(* pick a backend group.  The module models                                *)
(*   - the two Hasher implementations and the package default,             *)
(*   - RouteRequest of distribute.go, and the earlier two-argument         *)
(*     RouteRequest that hashes with MD5 directly,                         *)
(*   - callers: one call on drawn inputs (Spec), a sequence of calls with  *)
(*     the record of what was returned (SpecSeq), and goroutines running   *)
(*     RouteRequest statement by statement (SpecPar).                      *)
(*                                                                         *)
(* Numbers.  A uint64 is the tuple of its 16 hexadecimal digits, most      *)
(* significant first.  Go's int is modelled at the width of the 32-bit     *)
(* targets (GOARCH=386, arm); on 64-bit targets the same wrap-around       *)
(* happens at 2^63.                                                        *)
(***************************************************************************)
EXTENDS Integers, Sequences, FiniteSets

VARIABLES
    DefaultHasher,   \* package variable DefaultHasher
    requestID,       \* argument of the call under way / last made
    distribution,    \* argument: the weights
    hasher,          \* argument: the variadic hasher list
    callee,          \* "none" before the call, else the function called
    result,          \* <<group, hashString>> returned, <<>> before the call
    returned,        \* SpecSeq: record of every call made and its result
    frames,          \* SpecPar: per goroutine, the frame of its call
    cells            \* SpecPar: storage of the local `cumulative`, per frame

vars == <<DefaultHasher, requestID, distribution, hasher, callee, result,
          returned, frames, cells>>

-----------------------------------------------------------------------------
(* Bounds of the model                                                     *)

MaxLen == 3          \* longest distribution drawn in Spec
MaxFixed == 109      \* caller-defined hashers return 0..MaxFixed
MaxCalls == 3        \* calls made in SpecSeq
NumRoutines == 2     \* goroutines in SpecPar

-----------------------------------------------------------------------------
(* Go's int                                                                *)

MaxInt == 2147483647
MinInt == (-MaxInt) - 1

\* a + b on int: signed overflow wraps around
AddInt(a, b) ==
    IF b > 0 /\ a > MaxInt - b THEN ((a - MaxInt) + (b - 1)) + MinInt
    ELSE IF b < 0 /\ a < MinInt - b THEN ((a - MinInt) + (b + 1)) + MaxInt
    ELSE a + b

-----------------------------------------------------------------------------
(* uint64 values and their formatting                                      *)

HexDigits == <<"0", "1", "2", "3", "4", "5", "6", "7",
               "8", "9", "a", "b", "c", "d", "e", "f">>

Pow16(k) == [i \in 0..7 |-> CASE i = 0 -> 1 [] i = 1 -> 16 [] i = 2 -> 256
                              [] i = 3 -> 4096 [] i = 4 -> 65536
                              [] i = 5 -> 1048576 [] i = 6 -> 16777216
                              [] i = 7 -> 268435456][k]

\* the uint64 with value n (n below 2^31)
Uint64(n) == [i \in 1..16 |-> IF i <= 8 THEN 0 ELSE (n \div Pow16(16 - i)) % 16]

\* h % 100 for a uint64 h, digit by digit
RECURSIVE Mod100Upto(_, _)
Mod100Upto(h, i) ==
    IF i = 0 THEN 0 ELSE (Mod100Upto(h, i - 1) * 16 + h[i]) % 100

Mod100(h) == Mod100Upto(h, 16)

\* fmt.Sprintf("%x", v) for an unsigned integer v: no leading zeros
RECURSIVE SprintfX(_)
SprintfX(v) ==
    IF v < 16 THEN HexDigits[v + 1]
    ELSE SprintfX(v \div 16) \o HexDigits[(v % 16) + 1]

\* fmt.Sprintf("%x", b) for a byte slice b: two digits per byte
RECURSIVE SprintfXBytes(_, _)
SprintfXBytes(h, i) ==
    IF i = 0 THEN "" ELSE SprintfXBytes(h, i - 1) \o HexDigits[h[i] + 1]

\* fmt.Sprintf("%d", n) for n >= 0
RECURSIVE SprintfD(_)
SprintfD(n) ==
    IF n < 10 THEN HexDigits[n + 1]
    ELSE SprintfD(n \div 10) \o HexDigits[(n % 10) + 1]

-----------------------------------------------------------------------------
(* Hashers                                                                 *)

RequestIDs == {"Tool-123", "Tool-49", "Tool-54"}

\* first 8 bytes of md5.Sum, big endian
MD5Table ==
    [id \in RequestIDs |->
        CASE id = "Tool-123" -> <<13, 8, 10, 2, 10, 9, 12, 12, 10, 13, 7, 13, 5, 15, 4, 14>>
          [] id = "Tool-49"  -> <<13, 5, 9, 3, 11, 8, 7, 9, 3, 7, 0, 1, 1, 10, 12, 1>>
          [] id = "Tool-54"  -> <<2, 15, 12, 13, 3, 6, 2, 10, 13, 9, 12, 0, 15, 4, 11, 10>>]

\* xxhash.Sum64
XXHashTable ==
    [id \in RequestIDs |->
        CASE id = "Tool-123" -> <<12, 12, 12, 9, 8, 7, 12, 8, 1, 6, 9, 0, 8, 12, 9, 10>>
          [] id = "Tool-49"  -> <<6, 8, 11, 13, 7, 10, 0, 14, 14, 1, 8, 13, 6, 15, 15, 14>>
          [] id = "Tool-54"  -> <<3, 12, 7, 12, 2, 0, 9, 2, 4, 4, 15, 10, 10, 8, 4, 9>>]

MD5Hasher == [type |-> "MD5Hasher", value |-> 0]
XXHashHasher == [type |-> "XXHashHasher", value |-> 0]
\* a Hasher supplied by the caller that returns n for every input
FixedHasher(n) == [type |-> "FixedHasher", value |-> n]

\* variant: a digest kept across calls and never reset, so that a later call
\* hashes what earlier calls wrote as well
MD5Hasher_Hash_Running(input) ==
    IF returned = <<>> THEN MD5Table[input] ELSE XXHashTable[input]

\* md5.Sum, first 8 bytes as a big-endian uint64
MD5Hasher_Hash(input) == MD5Table[input]

XXHashHasher_Hash(input) == XXHashTable[input]

Hash(h, input) ==
    CASE h.type = "MD5Hasher" -> MD5Hasher_Hash(input)
      [] h.type = "XXHashHasher" -> XXHashHasher_Hash(input)
      [] h.type = "FixedHasher" -> Uint64(h.value)

-----------------------------------------------------------------------------
(* RouteRequest                                                            *)

ChosenHasher(hs) == IF Len(hs) > 0 THEN hs[1] ELSE DefaultHasher

\* variant: `cumulative = percentage`
AccumulateReset(cumulative, percentage) == percentage

\* `cumulative += percentage`
Accumulate(cumulative, percentage) == AddInt(cumulative, percentage)

\* variant: `int(hashValue) <= cumulative`
CapturesInclusive(hashValue, cumulative) == hashValue <= cumulative

\* `int(hashValue) < cumulative`
Captures(hashValue, cumulative) == hashValue < cumulative

\* variant: fmt.Sprintf("Group %d", index)
GroupLabelZeroBased(index) == "Group " \o SprintfD(index)

\* fmt.Sprintf("Group %d", index+1)
GroupLabel(index) == "Group " \o SprintfD(index + 1)

\* variant: fall back to the first group
FallbackFirstGroup == "Group 1"

\* the label returned after the loop
Fallback == "Unknown Group"

\* the loop over distribution, from `index` on (0-based, as in the source)
RECURSIVE ScanFrom(_, _, _, _)
ScanFrom(hashValue, dist, index, cumulative) ==
    IF index >= Len(dist) THEN Fallback
    ELSE LET c == Accumulate(cumulative, dist[index + 1])
         IN  IF Captures(hashValue, c) THEN GroupLabel(index)
             ELSE ScanFrom(hashValue, dist, index + 1, c)

RouteRequest(id, dist, hs) ==
    LET hashValue == Mod100(Hash(ChosenHasher(hs), id))
        hashString == SprintfX(hashValue)
    IN  <<ScanFrom(hashValue, dist, 0, 0), hashString>>

\* the two-argument RouteRequest: MD5 only, renders the 8 hash bytes
RouteRequest_part_000(id, dist) ==
    LET hash == MD5Table[id]
        hashValue == Mod100(hash)
        hashString == SprintfXBytes(hash, 16)
    IN  <<ScanFrom(hashValue, dist, 0, 0), hashString>>

-----------------------------------------------------------------------------
(* Inputs                                                                  *)

Weights == {MinInt, -30, 0, 30, 50, 70, MaxInt}

Distributions == UNION {[1..n -> Weights] : n \in 0..MaxLen}

NamedHashers == {MD5Hasher, XXHashHasher}

HasherArgs ==
    {<<>>} \cup {<<h>> : h \in NamedHashers}
           \cup {<<h, g>> : h \in NamedHashers, g \in NamedHashers}

FixedArgs == {<<FixedHasher(n)>> : n \in 0..MaxFixed}

-----------------------------------------------------------------------------
(* Spec: one call on drawn inputs                                          *)

Init ==
    /\ DefaultHasher = XXHashHasher
    /\ distribution \in Distributions
    /\ \/ requestID \in RequestIDs /\ hasher \in HasherArgs
       \/ requestID = "Tool-123" /\ hasher \in FixedArgs
    /\ callee = "none"
    /\ result = <<>>
    /\ returned = <<>>
    /\ frames = <<>>
    /\ cells = <<>>

Call ==
    /\ callee = "none"
    /\ callee' = "RouteRequest"
    /\ result' = RouteRequest(requestID, distribution, hasher)
    /\ UNCHANGED <<DefaultHasher, requestID, distribution, hasher,
                   returned, frames, cells>>

Call_part_000 ==
    /\ callee = "none"
    /\ hasher = <<>>
    /\ callee' = "RouteRequest_part_000"
    /\ result' = RouteRequest_part_000(requestID, distribution)
    /\ UNCHANGED <<DefaultHasher, requestID, distribution, hasher,
                   returned, frames, cells>>

Next == Call \/ Call_part_000

Spec == Init /\ [][Next]_vars

-----------------------------------------------------------------------------
(* SpecSeq: a caller making one call after the other, keeping what each    *)
(* call returned, as Test_Distribution does for its group counts           *)

SeqDistributions == {<<50, 50>>, <<30, 30>>}

SeqHasherArgs == {<<>>, <<MD5Hasher>>, <<XXHashHasher>>, <<MD5Hasher, XXHashHasher>>}

CallRecord(fn, id, dist, hs, res) ==
    [callee |-> fn, requestID |-> id, distribution |-> dist,
     hasher |-> hs, result |-> res]

InitSeq ==
    /\ DefaultHasher = XXHashHasher
    /\ requestID = ""
    /\ distribution = <<>>
    /\ hasher = <<>>
    /\ callee = "none"
    /\ result = <<>>
    /\ returned = <<>>
    /\ frames = <<>>
    /\ cells = <<>>

Invoke(id, dist, hs) ==
    /\ Len(returned) < MaxCalls
    /\ requestID' = id
    /\ distribution' = dist
    /\ hasher' = hs
    /\ callee' = "RouteRequest"
    /\ result' = RouteRequest(id, dist, hs)
    /\ returned' = Append(returned,
                      CallRecord("RouteRequest", id, dist, hs,
                                 RouteRequest(id, dist, hs)))
    /\ UNCHANGED <<DefaultHasher, frames, cells>>

Invoke_part_000(id, dist) ==
    /\ Len(returned) < MaxCalls
    /\ requestID' = id
    /\ distribution' = dist
    /\ hasher' = <<>>
    /\ callee' = "RouteRequest_part_000"
    /\ result' = RouteRequest_part_000(id, dist)
    /\ returned' = Append(returned,
                      CallRecord("RouteRequest_part_000", id, dist, <<>>,
                                 RouteRequest_part_000(id, dist)))
    /\ UNCHANGED <<DefaultHasher, frames, cells>>

NextSeq ==
    \/ \E id \in RequestIDs, dist \in SeqDistributions, hs \in SeqHasherArgs :
           Invoke(id, dist, hs)
    \/ \E id \in RequestIDs, dist \in SeqDistributions :
           Invoke_part_000(id, dist)

SpecSeq == InitSeq /\ [][NextSeq]_vars

-----------------------------------------------------------------------------
(* SpecPar: goroutines each running RouteRequest statement by statement    *)

Routines == 1..NumRoutines

ParRequestIDs == {"Tool-123"}

ParHasherArgs == {<<>>, <<MD5Hasher>>}

IdleFrame ==
    [pc |-> "idle", requestID |-> "", distribution |-> <<>>, hasher |-> <<>>,
     chosenHasher |-> MD5Hasher, hashValue |-> 0, hashString |-> "",
     index |-> 0, ret |-> <<>>]

\* variant: `cumulative` declared at package level, one cell for all calls
SharedCell(g) == 1

\* where the local `cumulative` of goroutine g's call lives: every call
\* declares its own
Cell(g) == g

InitPar ==
    /\ DefaultHasher = XXHashHasher
    /\ requestID = ""
    /\ distribution = <<>>
    /\ hasher = <<>>
    /\ callee = "none"
    /\ result = <<>>
    /\ returned = <<>>
    /\ frames = [g \in Routines |-> IdleFrame]
    /\ cells = [g \in Routines |-> 0]

Shared == <<DefaultHasher, requestID, distribution, hasher, callee, result,
            returned>>

\* go RouteRequest(id, dist, hs...)
Go(g, id, dist, hs) ==
    /\ frames[g].pc = "idle"
    /\ frames' = [frames EXCEPT ![g] =
                     [IdleFrame EXCEPT !.pc = "L40", !.requestID = id,
                                       !.distribution = dist, !.hasher = hs]]
    /\ UNCHANGED <<Shared, cells>>

\* chosenHasher := DefaultHasher; if len(hasher) > 0 { chosenHasher = hasher[0] }
ChooseHasher(g) ==
    /\ frames[g].pc = "L40"
    /\ frames' = [frames EXCEPT ![g].chosenHasher = ChosenHasher(frames[g].hasher),
                                ![g].pc = "L46"]
    /\ UNCHANGED <<Shared, cells>>

\* hashValue := chosenHasher.Hash(requestID) % 100; hashString := Sprintf(...)
HashStep(g) ==
    /\ frames[g].pc = "L46"
    /\ LET hashValue == Mod100(Hash(frames[g].chosenHasher, frames[g].requestID))
       IN  frames' = [frames EXCEPT ![g].hashValue = hashValue,
                                    ![g].hashString = SprintfX(hashValue),
                                    ![g].pc = "L52"]
    /\ UNCHANGED <<Shared, cells>>

\* cumulative := 0, and the loop starts at index 0
DeclareCumulative(g) ==
    /\ frames[g].pc = "L52"
    /\ cells' = [cells EXCEPT ![Cell(g)] = 0]
    /\ frames' = [frames EXCEPT ![g].index = 0, ![g].pc = "L53"]
    /\ UNCHANGED Shared

\* loop head with an element left: cumulative += percentage
AddPercentage(g) ==
    /\ frames[g].pc = "L53"
    /\ frames[g].index < Len(frames[g].distribution)
    /\ cells' = [cells EXCEPT ![Cell(g)] =
                    Accumulate(cells[Cell(g)],
                               frames[g].distribution[frames[g].index + 1])]
    /\ frames' = [frames EXCEPT ![g].pc = "L55"]
    /\ UNCHANGED Shared

\* if int(hashValue) < cumulative { return "Group <index+1>", hashString }
Compare(g) ==
    /\ frames[g].pc = "L55"
    /\ IF Captures(frames[g].hashValue, cells[Cell(g)])
       THEN frames' = [frames EXCEPT
                          ![g].ret = <<GroupLabel(frames[g].index),
                                       frames[g].hashString>>,
                          ![g].pc = "done"]
       ELSE frames' = [frames EXCEPT ![g].index = frames[g].index + 1,
                                     ![g].pc = "L53"]
    /\ UNCHANGED <<Shared, cells>>

\* loop head with no element left: return "Unknown Group", hashString
ReturnFallback(g) ==
    /\ frames[g].pc = "L53"
    /\ frames[g].index >= Len(frames[g].distribution)
    /\ frames' = [frames EXCEPT ![g].ret = <<Fallback, frames[g].hashString>>,
                                ![g].pc = "done"]
    /\ UNCHANGED <<Shared, cells>>

\* the goroutine ends and another call may start in its place
Finish(g) ==
    /\ frames[g].pc = "done"
    /\ frames' = [frames EXCEPT ![g] = IdleFrame]
    /\ UNCHANGED <<Shared, cells>>

NextPar ==
    \E g \in Routines :
        \/ \E id \in ParRequestIDs, dist \in SeqDistributions, hs \in ParHasherArgs :
               Go(g, id, dist, hs)
        \/ ChooseHasher(g)
        \/ HashStep(g)
        \/ DeclareCumulative(g)
        \/ AddPercentage(g)
        \/ Compare(g)
        \/ ReturnFallback(g)
        \/ Finish(g)

SpecPar == InitPar /\ [][NextPar]_vars

-----------------------------------------------------------------------------
(* Vocabulary of the properties                                            *)

Done == callee # "none"

\* the raw hash of the call in the state
CallHash ==
    IF callee = "RouteRequest_part_000" THEN MD5Table[requestID]
    ELSE Hash(ChosenHasher(hasher), requestID)

\* p: the reduced percentage of the call in the state
CallP == Mod100(CallHash)

Group == result[1]

Label(n) == "Group " \o SprintfD(n)

\* c_i for i = n - 1: the sum of the first n weights, in int arithmetic
RECURSIVE RunningSum(_, _)
RunningSum(dist, n) ==
    IF n = 0 THEN 0 ELSE AddInt(RunningSum(dist, n - 1), dist[n])

Wraps(a, b) == (b > 0 /\ a > MaxInt - b) \/ (b < 0 /\ a < MinInt - b)

\* none of the first n additions of the running sum overflows
NoWrapUpto(dist, n) ==
    \A i \in 1..n : ~Wraps(RunningSum(dist, i - 1), dist[i])

NonNegative(dist) == \A i \in 1..Len(dist) : dist[i] >= 0

\* the groups whose cumulative boundary lies above q
Above(dist, q) == {i \in 1..Len(dist) : q < RunningSum(dist, i)}

Least(S) == CHOOSE i \in S : \A j \in S : i <= j

-----------------------------------------------------------------------------
(* Properties of one call (Spec)                                           *)

\* C2: RouteRequest returns "Group (i+1)" for the smallest index i with
\* p < c_i, c_i being the running sum of weights[0..i]; for [50, 50],
\* p = 49 yields Group 1 and p = 50 yields Group 2.
C2_BoundaryScan ==
    Done =>
        /\ Above(distribution, CallP) # {} =>
               Group = Label(Least(Above(distribution, CallP)))
        /\ (distribution = <<50, 50>> /\ CallP = 49) => Group = "Group 1"
        /\ (distribution = <<50, 50>> /\ CallP = 50) => Group = "Group 2"

C2_Witness ==
    /\ Done
    /\ distribution = <<30, 0, 70>>
    /\ CallP = 30
    /\ Group = "Group 3"

\* C3 as stated: for every list of integers, "Unknown Group" is returned
\* if and only if sum(weights) <= p.
C3_SentinelIffSum ==
    Done =>
        (Group = "Unknown Group"
            <=> RunningSum(distribution, Len(distribution)) <= CallP)

\* C3 amended: "Unknown Group" is returned if and only if no running sum
\* exceeds p; for non-negative weights whose running sum does not overflow
\* that is the same as sum(weights) <= p.
C3_SentinelIffNoBoundaryAbove ==
    Done =>
        /\ Group = "Unknown Group" <=> Above(distribution, CallP) = {}
        /\ (NonNegative(distribution)
              /\ NoWrapUpto(distribution, Len(distribution))) =>
               (Group = "Unknown Group"
                   <=> RunningSum(distribution, Len(distribution)) <= CallP)

C3_Witness ==
    /\ Done
    /\ distribution = <<50, -30>>
    /\ CallP = 60
    /\ Group = "Unknown Group"

\* C4: a call has no error outcome, it returns a pair of strings; for
\* weights = [] it returns "Unknown Group" whatever the identifier and the
\* strategy, and for weights = [30, 30] whenever p >= 60.
C4_FallbackWithoutError ==
    Done =>
        /\ Len(result) = 2
        /\ Group \in {"Unknown Group"} \cup {Label(n) : n \in 1..Len(distribution)}
        /\ distribution = <<>> => Group = "Unknown Group"
        /\ (distribution = <<30, 30>> /\ CallP >= 60) => Group = "Unknown Group"

C4_Witness ==
    /\ Done
    /\ distribution = <<30, 30>>
    /\ CallP >= 60
    /\ hasher = <<MD5Hasher>>
    /\ Group = "Unknown Group"

\* C5: for non-negative weights summing to 100, exactly weights[i] of the
\* percentages 0..99 are routed to Group (i+1), none to "Unknown Group".
C5_ProportionalPartition ==
    (/\ Done
     /\ NonNegative(distribution)
     /\ NoWrapUpto(distribution, Len(distribution))
     /\ RunningSum(distribution, Len(distribution)) = 100) =>
        /\ \A i \in 1..Len(distribution) :
               Cardinality({q \in 0..99 :
                   ScanFrom(q, distribution, 0, 0) = Label(i)}) = distribution[i]
        /\ \A q \in 0..99 : ScanFrom(q, distribution, 0, 0) # "Unknown Group"
        /\ Group # "Unknown Group"

C5_Witness ==
    /\ Done
    /\ distribution = <<70, 30>>
    /\ CallP = 70
    /\ Group = "Group 2"

\* C8: a call without a hasher argument returns what the call with
\* MD5Hasher{} returns; a call with hashers uses the first one.
C8_DefaultIsMD5 ==
    (Done /\ callee = "RouteRequest") =>
        /\ hasher = <<>> =>
               result = RouteRequest(requestID, distribution, <<MD5Hasher>>)
        /\ hasher # <<>> =>
               result = RouteRequest(requestID, distribution, <<hasher[1]>>)

C10_ReturnedGroupPositive ==
    (Done /\ Group # "Unknown Group") =>
        \E n \in 1..Len(distribution) :
            Group = Label(n) /\ distribution[n] > 0

\* C10 amended: a returned "Group n" has 1 <= n <= len(weights), and
\* weights[n-1] > 0 provided the running sums the scan computed did not
\* overflow int.
C10_ReturnedGroupPositiveNoWrap ==
    (Done /\ Group # "Unknown Group") =>
        \E n \in 1..Len(distribution) :
            /\ Group = Label(n)
            /\ NoWrapUpto(distribution, n) => distribution[n] > 0

C10_Witness ==
    /\ Done
    /\ distribution = <<-30, 50>>
    /\ CallP = 10
    /\ Group = "Group 2"

-----------------------------------------------------------------------------
(* Properties of sequences of calls (SpecSeq)                              *)

\* the strategy a recorded call hashed with
StrategyOf(r) ==
    IF r.callee = "RouteRequest_part_000" THEN MD5Hasher
    ELSE IF r.hasher = <<>> THEN DefaultHasher
    ELSE r.hasher[1]

SameKey(a, b) ==
    /\ a.requestID = b.requestID
    /\ a.distribution = b.distribution
    /\ StrategyOf(a) = StrategyOf(b)

Calls == {returned[i] : i \in 1..Len(returned)}

\* C1: all calls for one (id, weights, strategy) return the same group
\* label, whatever other calls are made in between.
C1_Sticky ==
    \A a \in Calls, b \in Calls : SameKey(a, b) => a.result[1] = b.result[1]

\* the same call made twice with a call for another identifier in between
C1_Witness ==
    \E i \in 1..Len(returned) : \E j \in (i + 2)..Len(returned) :
        /\ returned[i] = returned[j]
        /\ returned[i].hasher = <<MD5Hasher>>
        /\ returned[i + 1].requestID # returned[i].requestID

\* C6: of two calls of RouteRequest with the same strategy whose
\* identifiers have different raw hash values, the diagnostic strings
\* differ, also when both have the same hash mod 100.
C6_DiagnosticOfRawHash ==
    \A a \in Calls, b \in Calls :
        (/\ a.callee = "RouteRequest"
         /\ b.callee = "RouteRequest"
         /\ StrategyOf(a) = StrategyOf(b)
         /\ Hash(StrategyOf(a), a.requestID) # Hash(StrategyOf(b), b.requestID))
            => a.result[2] # b.result[2]

-----------------------------------------------------------------------------
(* Properties of concurrent calls (SpecPar)                                *)

Running(g) == frames[g].pc # "idle"

\* C7: in every interleaving a call returns what it returns when run alone,
\* and no step changes the identifier or the weights of a call under way,
\* or DefaultHasher.
C7_ParallelCalls ==
    /\ [](\A g \in Routines :
            frames[g].pc = "done" =>
                frames[g].ret = RouteRequest(frames[g].requestID,
                                             frames[g].distribution,
                                             frames[g].hasher))
    /\ [][/\ DefaultHasher' = DefaultHasher
          /\ \A g \in Routines :
                (Running(g) /\ frames'[g].pc # "idle") =>
                    /\ frames'[g].requestID = frames[g].requestID
                    /\ frames'[g].distribution = frames[g].distribution
                    /\ frames'[g].hasher = frames[g].hasher]_vars

\* two calls in the middle of their loops at once, and one of them returns
C7_Witness ==
    \E g \in Routines, k \in Routines :
        /\ g # k
        /\ frames[g].pc = "done"
        /\ frames[g].ret[1] = "Group 2"
        /\ frames[k].pc = "L55"
        /\ frames[k].index = 1

=============================================================================
